---------------------------- MODULE Spec2Model ----------------------------
(***************************************************************************)
(* A model of tfz (src/main.go): the two-step wizard (target multi-select, *)
(* then plan/apply), its fuzzy filter, label wrapping and viewport         *)
(* scrolling, and the hand-over of the chosen action and targets to        *)
(* terraform.                                                              *)
(*                                                                         *)
(* A Go string is a sequence of bytes (0..255).  Ranging over a string and *)
(* the conversion []rune(s) decode UTF-8, string(runes) encodes it, and    *)
(* s[i] reads one byte: each is modelled by what it does.                  *)
(***************************************************************************)
EXTENDS Integers, Sequences, FiniteSets, TLC

VARIABLES
    m,          \* the bubbletea model value (type model, main.go 30-43)
    term,       \* the terminal's own size <<width, height>>, read by term.GetSize
    pc,         \* "scan": main is at findTargets; "ui": the interactive loop runs;
                \* "done": it returned; "exited": the process is gone
    err,        \* the error main met: "nil", "scan", "run", "launch" or "exit"
    args,       \* the argument list handed to exec.Command("terraform", ...)
    invoked,    \* TRUE once terraform has been run
    exitCode,   \* the exit status of the process
    fzText, fzQuery, fzResult, fzPc,     \* one application of fuzzyMatch
    wrText, wrWidth, wrOut, wrPc         \* one application of wrapLines

vars == <<m, term, pc, err, args, invoked, exitCode,
          fzText, fzQuery, fzResult, fzPc, wrText, wrWidth, wrOut, wrPc>>
wizardVars == <<m, term, pc, err, args, invoked, exitCode>>
fuzzyVars == <<fzText, fzQuery, fzResult, fzPc>>
wrapVars == <<wrText, wrWidth, wrOut, wrPc>>

---------------------------------------------------------------------------
(* Bounds of the model.                                                    *)

\* the longest filter, in bytes, the model lets the user type
MaxFilterLen == 2
\* the longest text and query, in characters, fuzzyMatch is applied to
MaxTextLen == 3
MaxQueryLen == 2
\* the longest text, in bytes, and the largest width wrapLines is applied to
MaxWrapLen == 4
MaxWrapWidth == 3
\* the tallest terminal the row counts are computed for
MaxHeight == 8

---------------------------------------------------------------------------
(* Characters, bytes and runes.                                            *)

\* the printable ASCII characters, in code order from 32 (space)
AsciiTable ==
    << " ", "!", "\"", "#", "$", "%", "&", "'", "(", ")", "*", "+", ",", "-", ".", "/",
       "0", "1", "2", "3", "4", "5", "6", "7", "8", "9", ":", ";", "<", "=", ">", "?",
       "@", "A", "B", "C", "D", "E", "F", "G", "H", "I", "J", "K", "L", "M", "N", "O",
       "P", "Q", "R", "S", "T", "U", "V", "W", "X", "Y", "Z", "[", "\\", "]", "^", "_",
       "backtick", "a", "b", "c", "d", "e", "f", "g", "h", "i", "j", "k", "l", "m", "n", "o",
       "p", "q", "r", "s", "t", "u", "v", "w", "x", "y", "z", "{", "|", "}", "~" >>

\* characters outside ASCII that the model names, with their code points
NamedRunes ==
    [ e_acute |-> 233,      \* U+00E9, UTF-8 C3 A9
      E_ACUTE |-> 201,      \* U+00C9, UTF-8 C3 89
      A_TILDE |-> 195,      \* U+00C3, UTF-8 C3 83
      copyright |-> 169,    \* U+00A9, UTF-8 C2 A9
      hiragana_a |-> 12354, \* U+3042, UTF-8 E3 81 82
      newline |-> 10 ]

\* the code point of a named character
CodePoint(c) ==
    IF c \in DOMAIN NamedRunes
    THEN NamedRunes[c]
    ELSE 31 + (CHOOSE i \in 1..Len(AsciiTable) : AsciiTable[i] = c)

\* utf8.RuneError, what an invalid byte decodes to
RuneError == 65533

RECURSIVE Flatten(_)
Flatten(ss) == IF ss = <<>> THEN <<>> ELSE Head(ss) \o Flatten(Tail(ss))

\* string(rune): the UTF-8 encoding of one rune
EncodeRune(r) ==
    IF r < 0 \/ r > 1114111 \/ (r >= 55296 /\ r <= 57343)
    THEN <<239, 191, 189>>
    ELSE IF r < 128 THEN <<r>>
    ELSE IF r < 2048 THEN <<192 + (r \div 64), 128 + (r % 64)>>
    ELSE IF r < 65536
         THEN <<224 + (r \div 4096), 128 + ((r \div 64) % 64), 128 + (r % 64)>>
    ELSE <<240 + (r \div 262144), 128 + ((r \div 4096) % 64),
           128 + ((r \div 64) % 64), 128 + (r % 64)>>

\* string(runes)
EncodeRunes(rs) == Flatten([i \in 1..Len(rs) |-> EncodeRune(rs[i])])

IsCont(s, i, lo, hi) == i <= Len(s) /\ s[i] >= lo /\ s[i] <= hi

\* utf8.DecodeRuneInString(s[i:]) as [r, w]: an invalid byte is RuneError, width 1
DecodeRune(s, i) ==
    LET b == s[i]
        bad == [r |-> RuneError, w |-> 1]
        lo2 == IF b = 224 THEN 160 ELSE IF b = 240 THEN 144 ELSE 128
        hi2 == IF b = 237 THEN 159 ELSE IF b = 244 THEN 143 ELSE 191
    IN  IF b < 128 THEN [r |-> b, w |-> 1]
        ELSE IF b < 194 THEN bad
        ELSE IF b < 224
             THEN IF IsCont(s, i + 1, 128, 191)
                  THEN [r |-> (b - 192) * 64 + (s[i + 1] - 128), w |-> 2]
                  ELSE bad
        ELSE IF b < 240
             THEN IF IsCont(s, i + 1, lo2, hi2) /\ IsCont(s, i + 2, 128, 191)
                  THEN [r |-> (b - 224) * 4096 + (s[i + 1] - 128) * 64 + (s[i + 2] - 128),
                        w |-> 3]
                  ELSE bad
        ELSE IF b < 245
             THEN IF IsCont(s, i + 1, lo2, hi2) /\ IsCont(s, i + 2, 128, 191)
                     /\ IsCont(s, i + 3, 128, 191)
                  THEN [r |-> (b - 240) * 262144 + (s[i + 1] - 128) * 4096
                              + (s[i + 2] - 128) * 64 + (s[i + 3] - 128),
                        w |-> 4]
                  ELSE bad
        ELSE bad

RECURSIVE DecodeFrom(_, _)
DecodeFrom(s, i) ==
    IF i > Len(s) THEN <<>>
    ELSE LET d == DecodeRune(s, i) IN <<d.r>> \o DecodeFrom(s, i + d.w)

\* []rune(s), and the runes of `for _, r := range s`
Runes(s) == DecodeFrom(s, 1)

\* a Go string literal, written character by character
Str(cs) == EncodeRunes([i \in 1..Len(cs) |-> CodePoint(cs[i])])

\* unicode.ToLower on the runes of ASCII and Latin-1
ToLowerRune(r) ==
    IF r >= 65 /\ r <= 90 THEN r + 32
    ELSE IF r >= 192 /\ r <= 222 /\ r # 215 THEN r + 32
    ELSE r

\* strings.ToLower: rune by rune; an invalid byte comes out as U+FFFD
ToLower(s) == LET rs == Runes(s)
              IN  EncodeRunes([i \in 1..Len(rs) |-> ToLowerRune(rs[i])])

---------------------------------------------------------------------------
(* fuzzyMatch (main.go 557-577).                                           *)

\* the inner loop: the index (0-based) after the first byte of text at or after
\* ti that equals the rune r, or -1 when the text is exhausted first
RECURSIVE fuzzyScan(_, _, _)
fuzzyScan(text, r, ti) ==
    IF ti >= Len(text) THEN -1
    ELSE IF text[ti + 1] = r THEN ti + 1
    ELSE fuzzyScan(text, r, ti + 1)

\* the outer loop over the runes of the query, from rune qi on
RECURSIVE fuzzyLoop(_, _, _, _)
fuzzyLoop(text, qrunes, qi, ti) ==
    IF qi > Len(qrunes) THEN TRUE
    ELSE LET next == fuzzyScan(text, qrunes[qi], ti)
         IN  IF next = -1 THEN FALSE
             ELSE fuzzyLoop(text, qrunes, qi + 1, next)

fuzzyMatch(text, query) ==
    IF query = <<>> THEN TRUE
    ELSE fuzzyLoop(text, Runes(query), 1, 0)

---------------------------------------------------------------------------
(* wrapLines (main.go 586-605).                                            *)

\* strings.Split(text, "\n")
RECURSIVE SplitLines(_, _)
SplitLines(text, cur) ==
    IF text = <<>> THEN <<cur>>
    ELSE IF Head(text) = 10 THEN <<cur>> \o SplitLines(Tail(text), <<>>)
    ELSE SplitLines(Tail(text), Append(cur, Head(text)))

\* the loop with `runes = runes[width+1:]`: one rune lost at every break
RECURSIVE wrapChunks_skipRune(_, _)
wrapChunks_skipRune(runes, width) ==
    IF Len(runes) > width
    THEN <<EncodeRunes(SubSeq(runes, 1, width))>>
         \o wrapChunks_skipRune(SubSeq(runes, width + 2, Len(runes)), width)
    ELSE <<EncodeRunes(runes)>>

\* the loop `for len(runes) > width` and the final append
RECURSIVE wrapChunks(_, _)
wrapChunks(runes, width) ==
    IF Len(runes) > width
    THEN <<EncodeRunes(SubSeq(runes, 1, width))>>
         \o wrapChunks(SubSeq(runes, width + 1, Len(runes)), width)
    ELSE <<EncodeRunes(runes)>>

\* the loop body that adds no line for an empty sub-line
wrapLine_dropBlank(line, width) ==
    IF line = <<>> THEN <<>> ELSE wrapChunks(Runes(line), width)

wrapLine(line, width) ==
    IF line = <<>> THEN << <<>> >> ELSE wrapChunks(Runes(line), width)

wrapLines(text, width) ==
    LET lines == SplitLines(text, <<>>)
    IN  IF width <= 0 THEN lines
        ELSE Flatten([i \in 1..Len(lines) |-> wrapLine(lines[i], width)])

---------------------------------------------------------------------------
(* The wizard's data (main.go 18-43, 709-715).                             *)

stepTargets == 0
stepAction == 1

\* the string literals of the source
keyUp == Str(<<"u", "p">>)
keyDown == Str(<<"d", "o", "w", "n">>)
keyK == Str(<<"k">>)
keyJ == Str(<<"j">>)
keyQ == Str(<<"q">>)
keySpace == Str(<<" ">>)
keyEnter == Str(<<"e", "n", "t", "e", "r">>)
keyBackspace == Str(<<"b", "a", "c", "k", "s", "p", "a", "c", "e">>)
keyCtrlC == Str(<<"c", "t", "r", "l", "+", "c">>)
keyTab == Str(<<"t", "a", "b">>)
keyA == Str(<<"a">>)
keyN == Str(<<"N">>)
filterPrefix == Str(<<"F", "I", "L", "T", "E", "R", ":", " ">>)
targetPrefix == Str(<<">", " ", "[", " ", "]", " ">>)
actionPrefix == Str(<<">", " ">>)
targetFlag == Str(<<"-", "t", "a", "r", "g", "e", "t", "=">>)

actions == << Str(<<"p", "l", "a", "n">>), Str(<<"a", "p", "p", "l", "y">>) >>
allTarget == Str(<<"a", "l", "l">>)

\* the note a rejected confirm sets (main.go 109)
NoteText ==
    Str(<< "S","e","l","e","c","t"," ","a","t"," ","l","e","a","s","t"," ","o","n","e",
           " ","t","a","r","g","e","t"," ","(","o","r"," ","'","a","l","l","'",")"," ",
           "w","i","t","h"," ","S","p","a","c","e","." >>)

\* what findTargets can return: sorted, duplicate-free labels
ScanResults ==
    { <<>>,
      << Str(<<"m","o","d","u","l","e",".","n","e","t">>),
         Str(<<"r","e","s","o","u","r","c","e",".","a","w","s","_","i","n","s","t","a",
               "n","c","e",".","w","e","b">>) >>,
      << Str(<<"m","o","d","u","l","e",".","C","a","f","e_acute">>) >> }

\* the sizes the terminal takes; <<0, 0>>: term.GetSize fails
InitTermSizes == { <<0, 0>>, <<12, 6>> }
\* <<60, 3>>: one row of either list fits
ResizeSizes == { <<12, 6>>, <<12, 12>>, <<60, 3>> }

\* items of main (main.go 735-739)
MakeItems(targets) ==
    << [Label |-> allTarget, Selected |-> FALSE] >>
    \o [i \in 1..Len(targets) |-> [Label |-> targets[i], Selected |-> FALSE]]

\* the model main constructs (main.go 741-746): every other field is zero
NewModel(targets) ==
    [ step |-> stepTargets, cursor |-> 0, actionCursor |-> 0,
      targets |-> MakeItems(targets), action |-> <<>>, note |-> <<>>,
      width |-> 0, height |-> 0, filter |-> <<>>, filtered |-> <<>>,
      targetOffset |-> 0, actionOffset |-> 0 ]

---------------------------------------------------------------------------
(* Tables of wrapLines and strings.ToLower on the texts the wizard shows,  *)
(* computed once from the operators above; any other argument is computed *)
(* on the spot.                                                            *)

KnownTexts ==
    {allTarget, NoteText}
    \cup {actions[i] : i \in 1..Len(actions)}
    \cup UNION {{r[i] : i \in 1..Len(r)} : r \in ScanResults}

KnownWidths ==
    LET inner == {0} \cup {s[1] : s \in InitTermSizes \cup ResizeSizes}
    IN  inner \cup {IF w - Len(Runes(targetPrefix)) < 1 THEN 1
                    ELSE w - Len(Runes(targetPrefix)) : w \in inner}
              \cup {IF w - Len(Runes(actionPrefix)) < 1 THEN 1
                    ELSE w - Len(Runes(actionPrefix)) : w \in inner}

WrapTable == [t \in KnownTexts, w \in KnownWidths |-> wrapLines(t, w)]
LowerTable == [t \in KnownTexts |-> ToLower(t)]

wrapped(text, width) ==
    IF text \in KnownTexts /\ width \in KnownWidths
    THEN WrapTable[text, width] ELSE wrapLines(text, width)

lowered(text) == IF text \in KnownTexts THEN LowerTable[text] ELSE ToLower(text)

---------------------------------------------------------------------------
(* Geometry (main.go 290-318).                                             *)

currentWidth(mm) == IF mm.width > 0 THEN mm.width ELSE term[1]
currentHeight(mm) == IF mm.height > 0 THEN mm.height ELSE term[2]
innerWidth(mm) == LET frameWidth == currentWidth(mm)
                  IN  IF frameWidth <= 0 THEN 0 ELSE frameWidth

---------------------------------------------------------------------------
(* Selection (main.go 663-707).                                            *)

\* selectAllOnly that selects 'all' without clearing the other rows
selectAllOnly_keepOthers(ts) ==
    IF Len(ts) > 0 THEN [ts EXCEPT ![1].Selected = TRUE] ELSE ts

selectAllOnly(ts) ==
    LET cleared == [i \in 1..Len(ts) |-> [ts[i] EXCEPT !.Selected = FALSE]]
    IN  IF Len(ts) > 0 THEN [cleared EXCEPT ![1].Selected = TRUE] ELSE cleared

\* toggleSelection without the reset of the 'all' row (lines 672-674 dropped)
toggleSelection_keepAll(ts, index) ==
    IF index = 0
    THEN IF ~ts[1].Selected THEN selectAllOnly(ts)
         ELSE [ts EXCEPT ![1].Selected = FALSE]
    ELSE [ts EXCEPT ![index + 1].Selected = ~ts[index + 1].Selected]

\* index is 0-based, as in the source
toggleSelection(ts, index) ==
    IF index = 0
    THEN IF ~ts[1].Selected THEN selectAllOnly(ts)
         ELSE [ts EXCEPT ![1].Selected = FALSE]
    ELSE LET t1 == IF ts[1].Selected THEN [ts EXCEPT ![1].Selected = FALSE] ELSE ts
         IN  [t1 EXCEPT ![index + 1].Selected = ~t1[index + 1].Selected]

RECURSIVE hasSelectionFrom(_, _)
hasSelectionFrom(ts, i) ==
    IF i > Len(ts) THEN FALSE
    ELSE IF ts[i].Selected THEN TRUE
    ELSE hasSelectionFrom(ts, i + 1)

\* hasSelection that overlooks the 'all' row
hasSelection_skipAll(ts) == hasSelectionFrom(ts, 2)

hasSelection(ts) == hasSelectionFrom(ts, 1)

\* the loop over m.targets[1:]
RECURSIVE selectedFrom(_, _)
selectedFrom(ts, i) ==
    IF i > Len(ts) THEN <<>>
    ELSE (IF ts[i].Selected THEN <<ts[i].Label>> ELSE <<>>) \o selectedFrom(ts, i + 1)

\* selectedTargets without the 'all' check, looping over every row
selectedTargets_everyRow(ts) == selectedFrom(ts, 1)

selectedTargets(ts) ==
    IF Len(ts) = 0 \/ ts[1].Selected THEN <<>> ELSE selectedFrom(ts, 2)

---------------------------------------------------------------------------
(* Filter and cursor (main.go 320-383).                                    *)

\* the loop of rebuildFilter: the 0-based indices of the rows that match
RECURSIVE matchFrom(_, _, _)
matchFrom(ts, query, i) ==
    IF i > Len(ts) THEN <<>>
    ELSE (IF fuzzyMatch(lowered(ts[i].Label), query) THEN <<i - 1>> ELSE <<>>)
         \o matchFrom(ts, query, i + 1)

InSeq(x, s) == \E i \in 1..Len(s) : s[i] = x

\* rebuildFilter that never touches the cursor (main.go 331-344 dropped)
keepCursor_stay(mm, f) == [mm EXCEPT !.filtered = f]

\* the end of rebuildFilter (main.go 331-344), f being the indices that matched
keepCursor(mm, f) ==
    IF Len(f) = 0 THEN [mm EXCEPT !.filtered = f, !.cursor = 0]
    ELSE IF InSeq(mm.cursor, f) THEN [mm EXCEPT !.filtered = f]
    ELSE [mm EXCEPT !.filtered = f, !.cursor = f[1]]

\* rebuildFilter that also deselects the rows the filter hides
rebuildFilter_dropHidden(mm) ==
    IF mm.filter = <<>> THEN [mm EXCEPT !.filtered = <<>>]
    ELSE LET f == matchFrom(mm.targets, ToLower(mm.filter), 1)
         IN  keepCursor([mm EXCEPT !.targets =
                            [i \in 1..Len(mm.targets) |->
                                [mm.targets[i] EXCEPT !.Selected = @ /\ InSeq(i - 1, f)]]], f)

rebuildFilter(mm) ==
    IF mm.filter = <<>> THEN [mm EXCEPT !.filtered = <<>>]
    ELSE keepCursor(mm, matchFrom(mm.targets, ToLower(mm.filter), 1))

targetIndexes(mm) ==
    IF Len(mm.filtered) = 0
    THEN [i \in 1..Len(mm.targets) |-> i - 1]
    ELSE mm.filtered

\* the rows viewTargets draws (main.go 169-175), 0-based
viewIndexes(mm) ==
    IF Len(mm.filtered) = 0
    THEN [i \in 1..Len(mm.targets) |-> i - 1]
    ELSE mm.filtered

\* moveTargetCursor on the raw row index: cursor + delta, kept inside the rows
moveTargetCursor_raw(mm, delta) ==
    LET n0 == mm.cursor + delta
        n1 == IF n0 < 0 THEN 0 ELSE n0
        next == IF n1 >= Len(mm.targets) THEN Len(mm.targets) - 1 ELSE n1
    IN  [mm EXCEPT !.cursor = next]

\* moveTargetCursor without its two clamps (main.go 376-381 dropped)
moveTargetCursor_unclamped(mm, delta) == [mm EXCEPT !.cursor = mm.cursor + delta]

moveTargetCursor(mm, delta) ==
    LET indexes == targetIndexes(mm)
        hits == {i \in 1..Len(indexes) : indexes[i] = mm.cursor}
        \* pos is 0-based
        pos == IF hits = {} THEN 0
               ELSE (CHOOSE i \in hits : \A j \in hits : i <= j) - 1
        n0 == pos + delta
        n1 == IF n0 < 0 THEN 0 ELSE n0
        next == IF n1 >= Len(indexes) THEN Len(indexes) - 1 ELSE n1
    IN  IF Len(indexes) = 0 THEN mm
        ELSE [mm EXCEPT !.cursor = indexes[next + 1]]

---------------------------------------------------------------------------
(* Viewport of the target list (main.go 385-476).                          *)

targetLabelWidth(inner) ==
    LET prefixLen == Len(Runes(targetPrefix))
        labelWidth == inner - prefixLen
    IN  IF labelWidth < 1 THEN 1 ELSE labelWidth

\* the loop of targetCursorLine from position k of indexes, `line` lines so far;
\* the result is <<first display line of the cursor's row, its line count>>
RECURSIVE cursorLineFrom(_, _, _, _, _)
cursorLineFrom(mm, labelWidth, indexes, k, line) ==
    IF k > Len(indexes) THEN <<0, 1>>
    ELSE LET i == indexes[k]
             lines == wrapped(mm.targets[i + 1].Label, labelWidth)
         IN  IF i = mm.cursor
             THEN IF Len(lines) = 0 THEN <<line, 1>> ELSE <<line, Len(lines)>>
             ELSE cursorLineFrom(mm, labelWidth, indexes, k + 1, line + Len(lines))

targetCursorLine(mm, inner, indexes) ==
    cursorLineFrom(mm, targetLabelWidth(inner), indexes, 1, 0)

RECURSIVE totalLinesFrom(_, _, _, _)
totalLinesFrom(mm, labelWidth, indexes, k) ==
    IF k > Len(indexes) THEN 0
    ELSE Len(wrapped(mm.targets[indexes[k] + 1].Label, labelWidth))
         + totalLinesFrom(mm, labelWidth, indexes, k + 1)

targetTotalLines(mm, inner, indexes) ==
    totalLinesFrom(mm, targetLabelWidth(inner), indexes, 1)

\* the end of targetVisibleRows without the floor at one row (main.go 438-440 dropped)
rowsLeft_noFloor(height, filterLines, showNote, noteLines) ==
    LET available == height - 2 - filterLines - 1 - noteLines
        hide == available < 1 /\ showNote
    IN  [visible |-> IF hide THEN height - 2 - filterLines - 1 ELSE available,
         showNote |-> showNote /\ ~hide]

\* the end of targetVisibleRows (main.go 432-442), the line counts being known
rowsLeft(height, filterLines, showNote, noteLines) ==
    LET headerLines == 2
        blank == 1
        available == height - headerLines - filterLines - blank - noteLines
        hide == available < 1 /\ showNote
        available2 == IF hide THEN height - headerLines - filterLines - blank
                      ELSE available
    IN  [visible |-> IF available2 < 1 THEN 1 ELSE available2,
         showNote |-> showNote /\ ~hide]

\* the result is [visible, showNote]
targetVisibleRows(mm, inner, height) ==
    IF height <= 0 THEN [visible |-> 0, showNote |-> FALSE]
    ELSE rowsLeft(height,
                  Len(wrapped(filterPrefix \o mm.filter, inner)),
                  mm.note # <<>>,
                  IF mm.note # <<>> THEN 1 + Len(wrapped(mm.note, inner)) ELSE 0)

\* the scrolling without the clamp of the old offset to maxOffset
scrollTo_noClamp(offset, total, visible, cursorLine) ==
    IF cursorLine < offset THEN cursorLine
    ELSE IF cursorLine >= offset + visible
         THEN (IF cursorLine - visible + 1 < 0 THEN 0 ELSE cursorLine - visible + 1)
    ELSE offset

\* the scrolling that puts a cursor found below the window on its first line
scrollTo_top(offset, total, visible, cursorLine) ==
    LET m0 == total - visible
        maxOffset == IF m0 < 0 THEN 0 ELSE m0
        off == IF offset > maxOffset THEN maxOffset ELSE offset
    IN  IF cursorLine < off THEN cursorLine
        ELSE IF cursorLine >= off + visible
             THEN (IF cursorLine > maxOffset THEN maxOffset ELSE cursorLine)
        ELSE off

\* the scrolling both ensure...Visible functions share, from the clamp to maxOffset on
scrollTo(offset, total, visible, cursorLine) ==
    LET m0 == total - visible
        maxOffset == IF m0 < 0 THEN 0 ELSE m0
        off == IF offset > maxOffset THEN maxOffset ELSE offset
    IN  IF cursorLine < off THEN cursorLine
        ELSE IF cursorLine >= off + visible
             THEN (IF cursorLine - visible + 1 < 0 THEN 0 ELSE cursorLine - visible + 1)
        ELSE off

\* ensureTargetVisible from `if total <= 0 || visible <= 0` on (main.go 454-475)
targetScroll(mm, total, visible, cursorLine) ==
    IF total <= 0 \/ visible <= 0 THEN [mm EXCEPT !.targetOffset = 0]
    ELSE [mm EXCEPT !.targetOffset = scrollTo(mm.targetOffset, total, visible, cursorLine)]

\* ensureTargetVisible once inner, height and indexes are read (main.go 448-475)
targetScrollIn(mm, inner, height, indexes) ==
    IF height <= 0 THEN mm
    ELSE targetScroll(mm,
                      targetTotalLines(mm, inner, indexes),
                      targetVisibleRows(mm, inner, height).visible,
                      targetCursorLine(mm, inner, indexes)[1])

ensureTargetVisible(mm) ==
    targetScrollIn(mm, innerWidth(mm), currentHeight(mm), targetIndexes(mm))

---------------------------------------------------------------------------
(* Viewport of the action list (main.go 478-555).                          *)

actionLabelWidth(inner) ==
    LET prefixLen == Len(Runes(actionPrefix))
        labelWidth == inner - prefixLen
    IN  IF labelWidth < 1 THEN 1 ELSE labelWidth

RECURSIVE actionLineFrom(_, _, _, _)
actionLineFrom(mm, labelWidth, i, line) ==
    IF i > Len(actions) THEN 0
    ELSE IF i - 1 = mm.actionCursor THEN line
    ELSE actionLineFrom(mm, labelWidth, i + 1, line + Len(wrapped(actions[i], labelWidth)))

actionCursorLine(mm, inner) == actionLineFrom(mm, actionLabelWidth(inner), 1, 0)

RECURSIVE actionTotalFrom(_, _)
actionTotalFrom(labelWidth, i) ==
    IF i > Len(actions) THEN 0
    ELSE Len(wrapped(actions[i], labelWidth)) + actionTotalFrom(labelWidth, i + 1)

actionTotalLines(inner) == actionTotalFrom(actionLabelWidth(inner), 1)

actionVisibleRows(height) ==
    IF height <= 0 THEN 0
    ELSE LET headerLines == 2
             available == height - headerLines
         IN  IF available < 1 THEN 1 ELSE available

\* ensureActionVisible from `if total <= 0 || visible <= 0` on (main.go 533-554)
actionScroll(mm, total, visible, cursorLine) ==
    IF total <= 0 \/ visible <= 0 THEN [mm EXCEPT !.actionOffset = 0]
    ELSE [mm EXCEPT !.actionOffset = scrollTo(mm.actionOffset, total, visible, cursorLine)]

\* ensureActionVisible once inner and height are read (main.go 527-554)
actionScrollIn(mm, inner, height) ==
    IF height <= 0 THEN mm
    ELSE actionScroll(mm, actionTotalLines(inner), actionVisibleRows(height),
                      actionCursorLine(mm, inner))

ensureActionVisible(mm) == actionScrollIn(mm, innerWidth(mm), currentHeight(mm))

---------------------------------------------------------------------------
(* Messages (tea.KeyMsg, tea.WindowSizeMsg) and Update (main.go 69-149).   *)

KeyMsg(type, runes) == [kind |-> "key", Type |-> type, Runes |-> runes]
RunesMsg(cs) == KeyMsg("KeyRunes", [i \in 1..Len(cs) |-> CodePoint(cs[i])])
SizeMsg(size) == [kind |-> "size", Width |-> size[1], Height |-> size[2]]

\* msg.String(): the runes of a KeyRunes message, the key's name otherwise
KeyString(msg) ==
    CASE msg.Type = "KeyRunes" -> EncodeRunes(msg.Runes)
      [] msg.Type = "KeySpace" -> keySpace
      [] msg.Type = "KeyUp" -> keyUp
      [] msg.Type = "KeyDown" -> keyDown
      [] msg.Type = "KeyEnter" -> keyEnter
      [] msg.Type = "KeyBackspace" -> keyBackspace
      [] msg.Type = "KeyCtrlC" -> keyCtrlC
      [] msg.Type = "KeyTab" -> keyTab

\* the case " " without the reset of the note (main.go 104-106 dropped)
toggleKey_keepNote(mm) == [mm EXCEPT !.targets = toggleSelection(mm.targets, mm.cursor)]

\* the case " " of updateTargets (main.go 102-106)
toggleKey(mm) ==
    LET ts == toggleSelection(mm.targets, mm.cursor)
    IN  [mm EXCEPT !.targets = ts,
                   !.note = IF hasSelection(ts) /\ mm.note # <<>> THEN <<>> ELSE mm.note]

\* the case "enter" without the check of the selection (main.go 108-112 dropped)
confirm_always(mm) ==
    [mm EXCEPT !.note = <<>>, !.step = stepAction, !.cursor = 0,
               !.actionCursor = 0, !.actionOffset = 0]

\* the case "enter" entering the action step with the cursor on the second action
confirm_second(mm) ==
    IF ~hasSelection(mm.targets)
    THEN [mm EXCEPT !.note = NoteText]
    ELSE [mm EXCEPT !.note = <<>>, !.step = stepAction, !.cursor = 0,
                    !.actionCursor = 1, !.actionOffset = 0]

\* the case "enter" of updateTargets (main.go 107-117), before the final
\* ensureTargetVisible that both of its paths run
confirm(mm) ==
    IF ~hasSelection(mm.targets)
    THEN [mm EXCEPT !.note = NoteText]
    ELSE [mm EXCEPT !.note = <<>>, !.step = stepAction, !.cursor = 0,
                    !.actionCursor = 0, !.actionOffset = 0]

\* the case "backspace" (main.go 118-122)
eraseKey(mm) ==
    IF Len(mm.filter) > 0
    THEN rebuildFilter([mm EXCEPT !.filter = SubSeq(mm.filter, 1, Len(mm.filter) - 1)])
    ELSE mm

\* the default case (main.go 123-127)
typeKey(mm, msg) ==
    IF msg.Type = "KeyRunes" /\ Len(msg.Runes) > 0
    THEN rebuildFilter([mm EXCEPT !.filter = mm.filter \o EncodeRunes(msg.Runes)])
    ELSE mm

\* the switch of updateTargets on s = msg.String() (main.go 97-128)
targetsSwitch(mm, msg, s) ==
    CASE s \in {keyUp, keyK} -> moveTargetCursor(mm, -1)
      [] s \in {keyDown, keyJ} -> moveTargetCursor(mm, 1)
      [] s = keySpace -> toggleKey(mm)
      [] s = keyEnter -> confirm(mm)
      [] s = keyBackspace -> eraseKey(mm)
      [] OTHER -> typeKey(mm, msg)

updateTargets(mm, msg) ==
    [m |-> ensureTargetVisible(targetsSwitch(mm, msg, KeyString(msg))), quit |-> FALSE]

\* the same cases wrapping around at either end of the list
actionMove_wrap(mm, s) ==
    CASE s \in {keyUp, keyK} ->
               [mm EXCEPT !.actionCursor = (mm.actionCursor + Len(actions) - 1) % Len(actions)]
      [] s \in {keyDown, keyJ} ->
               [mm EXCEPT !.actionCursor = (mm.actionCursor + 1) % Len(actions)]
      [] OTHER -> mm

\* the cases of updateAction that fall through to ensureActionVisible (main.go 135-143)
actionMove(mm, s) ==
    CASE s \in {keyUp, keyK} ->
               IF mm.actionCursor > 0
               THEN [mm EXCEPT !.actionCursor = mm.actionCursor - 1] ELSE mm
      [] s \in {keyDown, keyJ} ->
               IF mm.actionCursor < Len(actions) - 1
               THEN [mm EXCEPT !.actionCursor = mm.actionCursor + 1] ELSE mm
      [] OTHER -> mm

\* the switch recording actions[0] whatever the cursor is on
actionSwitch_first(mm, s) ==
    IF s = keyEnter
    THEN [m |-> [mm EXCEPT !.action = actions[1]], quit |-> TRUE]
    ELSE [m |-> ensureActionVisible(actionMove(mm, s)), quit |-> FALSE]

\* the switch of updateAction on s = msg.String() (main.go 134-148)
actionSwitch(mm, s) ==
    IF s = keyEnter
    THEN [m |-> [mm EXCEPT !.action = actions[mm.actionCursor + 1]], quit |-> TRUE]
    ELSE [m |-> ensureActionVisible(actionMove(mm, s)), quit |-> FALSE]

\* updateAction with backspace leading back to the target list
updateAction_back(mm, msg) ==
    IF KeyString(msg) = keyBackspace
    THEN [m |-> [mm EXCEPT !.step = stepTargets], quit |-> FALSE]
    ELSE actionSwitch(mm, KeyString(msg))

updateAction(mm, msg) == actionSwitch(mm, KeyString(msg))

\* the same case sending both cursors back to the first row
resized_home(m1) ==
    [m |-> IF m1.step = stepTargets
           THEN ensureTargetVisible([m1 EXCEPT !.cursor = 0])
           ELSE IF m1.step = stepAction
           THEN ensureActionVisible([m1 EXCEPT !.actionCursor = 0])
           ELSE m1,
     quit |-> FALSE]

\* the same case leaving both offsets as they are (main.go 87-92 dropped)
resized_asIs(m1) == [m |-> m1, quit |-> FALSE]

\* the case tea.WindowSizeMsg of Update after the two assignments (main.go 86-92)
resized(m1) ==
    [m |-> IF m1.step = stepTargets THEN ensureTargetVisible(m1)
           ELSE IF m1.step = stepAction THEN ensureActionVisible(m1)
           ELSE m1,
     quit |-> FALSE]

\* Update whose quit case lists "ctrl+c" alone
Update_onlyCtrlC(mm, msg) ==
    IF msg.kind = "key"
    THEN IF KeyString(msg) = keyCtrlC
         THEN [m |-> mm, quit |-> TRUE]
         ELSE IF mm.step = stepTargets THEN updateTargets(mm, msg)
         ELSE IF mm.step = stepAction THEN updateAction(mm, msg)
         ELSE [m |-> mm, quit |-> FALSE]
    ELSE resized([mm EXCEPT !.width = msg.Width, !.height = msg.Height])

\* the result is the model returned and whether the command is tea.Quit
Update(mm, msg) ==
    IF msg.kind = "key"
    THEN IF KeyString(msg) \in {keyCtrlC, keyQ}
         THEN [m |-> mm, quit |-> TRUE]
         ELSE IF mm.step = stepTargets THEN updateTargets(mm, msg)
         ELSE IF mm.step = stepAction THEN updateAction(mm, msg)
         ELSE [m |-> mm, quit |-> FALSE]
    ELSE resized([mm EXCEPT !.width = msg.Width, !.height = msg.Height])

\* the argument list main builds (main.go 762-766)
targetArg(t) == targetFlag \o t

commandArgs(fm) ==
    LET selected == selectedTargets(fm.targets)
    IN  <<fm.action>> \o [i \in 1..Len(selected) |-> targetArg(selected[i])]

---------------------------------------------------------------------------
(* The program: the interactive loop, then main's tail (main.go 747-777).  *)

\* the keys the user presses
TypedRunes == { <<"a">>, <<"N">>, <<"e_acute">>, <<"n", "e">> }
VimRunes == { <<"j">>, <<"k">> }

IdleFuzzy == fzText = <<>> /\ fzQuery = <<>> /\ fzResult = FALSE /\ fzPc = "idle"
IdleWrap == wrText = <<>> /\ wrWidth = 0 /\ wrOut = <<>> /\ wrPc = "idle"

\* main at the call of findTargets (main.go 729).  No model value exists before
\* line 741; m holds the model of an empty scan until FindTargetsDone sets it.
Init ==
    /\ m = NewModel(<<>>)
    /\ term \in InitTermSizes
    /\ pc = "scan"
    /\ err = "nil"
    /\ args = <<>>
    /\ invoked = FALSE
    /\ exitCode = -1
    /\ IdleFuzzy
    /\ IdleWrap

\* findTargets returns the labels and main starts the program (main.go 729-747)
FindTargetsDone ==
    /\ pc = "scan"
    /\ \E targets \in ScanResults : m' = NewModel(targets)
    /\ pc' = "ui"
    /\ UNCHANGED <<term, err, args, invoked, exitCode, fuzzyVars, wrapVars>>

\* findTargets returns an error: os.Exit(1) (main.go 730-733)
FindTargetsFails ==
    /\ pc = "scan"
    /\ err' = "scan"
    /\ exitCode' = 1
    /\ pc' = "exited"
    /\ UNCHANGED <<m, term, args, invoked, fuzzyVars, wrapVars>>

\* prog.Run returns an error: os.Exit(1) (main.go 748-752)
RunFails ==
    /\ pc = "ui"
    /\ err' = "run"
    /\ exitCode' = 1
    /\ pc' = "exited"
    /\ UNCHANGED <<m, term, args, invoked, fuzzyVars, wrapVars>>

\* what prog.Run does with Update's result r
Returned(r) ==
    /\ m' = r.m
    /\ pc' = IF r.quit THEN "done" ELSE "ui"

\* one message through Update; tea.Quit ends the loop
Handle(msg) ==
    /\ pc = "ui"
    /\ Returned(Update(m, msg))
    /\ UNCHANGED <<err, args, invoked, exitCode, fuzzyVars, wrapVars>>

PressUp == Handle(KeyMsg("KeyUp", <<>>)) /\ UNCHANGED term
PressDown == Handle(KeyMsg("KeyDown", <<>>)) /\ UNCHANGED term
PressSpace == Handle(KeyMsg("KeySpace", <<32>>)) /\ UNCHANGED term
PressEnter == Handle(KeyMsg("KeyEnter", <<>>)) /\ UNCHANGED term
PressBackspace == Handle(KeyMsg("KeyBackspace", <<>>)) /\ UNCHANGED term
PressTab == Handle(KeyMsg("KeyTab", <<>>)) /\ UNCHANGED term
PressCtrlC == Handle(KeyMsg("KeyCtrlC", <<>>)) /\ UNCHANGED term
PressQ == Handle(RunesMsg(<<"q">>)) /\ UNCHANGED term
PressVim == \E cs \in VimRunes : Handle(RunesMsg(cs)) /\ UNCHANGED term

\* typing; the model stops the filter at MaxFilterLen bytes
TypeRunes ==
    \E cs \in TypedRunes :
        /\ m.step = stepTargets => Len(m.filter) + Len(Str(cs)) <= MaxFilterLen
        /\ Handle(RunesMsg(cs))
        /\ UNCHANGED term

\* the terminal changes size and bubbletea delivers the new size
Resize ==
    \E size \in ResizeSizes :
        /\ term' = size
        /\ Handle(SizeMsg(size))

\* main after prog.Run(): no action chosen (main.go 758-760)
MainCancelled ==
    /\ pc = "done"
    /\ m.action = <<>>
    /\ pc' = "exited"
    /\ exitCode' = 0
    /\ UNCHANGED <<m, term, err, args, invoked, fuzzyVars, wrapVars>>

\* what cmd.Run() can return: nil, a launch failure, a non-zero exit
CmdErrors == {"nil", "launch", "exit"}

\* main that returns normally whatever cmd.Run() answers (lines 773-776 dropped)
MainExec_ignoresErr ==
    /\ pc = "done"
    /\ m.action # <<>>
    /\ args' = commandArgs(m)
    /\ invoked' = TRUE
    /\ pc' = "exited"
    /\ \E e \in CmdErrors : err' = e /\ exitCode' = 0
    /\ UNCHANGED <<m, term, fuzzyVars, wrapVars>>

\* main calls cmd.Run() on terraform with the arguments (main.go 762-776);
\* invoked records the call
MainExec ==
    /\ pc = "done"
    /\ m.action # <<>>
    /\ args' = commandArgs(m)
    /\ invoked' = TRUE
    /\ pc' = "exited"
    /\ \E e \in CmdErrors : err' = e /\ exitCode' = IF e = "nil" THEN 0 ELSE 1
    /\ UNCHANGED <<m, term, fuzzyVars, wrapVars>>

Next ==
    \/ FindTargetsDone
    \/ FindTargetsFails
    \/ RunFails
    \/ PressUp
    \/ PressDown
    \/ PressSpace
    \/ PressEnter
    \/ PressBackspace
    \/ PressTab
    \/ PressCtrlC
    \/ PressQ
    \/ PressVim
    \/ TypeRunes
    \/ Resize
    \/ MainCancelled
    \/ MainExec

Spec == Init /\ [][Next]_vars

---------------------------------------------------------------------------
(* fuzzyMatch and wrapLines on their own: the arguments are drawn in the   *)
(* initial state and one step applies the function.                        *)

SeqsUpTo(S, n) == UNION {[1..k -> S] : k \in 0..n}

\* lower-case and caseless characters, as rebuildFilter passes them
FuzzyAlphabet == {"a", "p", "t", "e_acute", "copyright"}

FuzzyTexts ==
    {Str(cs) : cs \in SeqsUpTo(FuzzyAlphabet, MaxTextLen)}
    \cup {Str(<<"t","a","r","g","e","t","_","a","l","l","_","p","r","o","d">>)}

FuzzyQueries ==
    {Str(cs) : cs \in SeqsUpTo(FuzzyAlphabet, MaxQueryLen)}
    \cup {Str(<<"t", "a", "p">>), Str(<<"p", "a", "t">>)}

\* newline, 'a', 'b' and the two bytes of U+00E9
WrapBytes == {10, 97, 98, 195, 169}

IdleWizard ==
    /\ m = NewModel(<<>>)
    /\ term = <<0, 0>>
    /\ pc = "off"
    /\ err = "nil"
    /\ args = <<>>
    /\ invoked = FALSE
    /\ exitCode = -1

InitFuzzy ==
    /\ IdleWizard
    /\ IdleWrap
    /\ fzText \in FuzzyTexts
    /\ fzQuery \in FuzzyQueries
    /\ fzResult = FALSE
    /\ fzPc = "call"

FuzzyApply ==
    /\ fzPc = "call"
    /\ fzResult' = fuzzyMatch(fzText, fzQuery)
    /\ fzPc' = "return"
    /\ UNCHANGED <<fzText, fzQuery, wizardVars, wrapVars>>

SpecFuzzy == InitFuzzy /\ [][FuzzyApply]_vars

InitWrap ==
    /\ IdleWizard
    /\ IdleFuzzy
    /\ wrText \in SeqsUpTo(WrapBytes, MaxWrapLen)
    /\ wrWidth \in -1..MaxWrapWidth
    /\ wrOut = <<>>
    /\ wrPc = "call"

WrapApply ==
    /\ wrPc = "call"
    /\ wrOut' = wrapLines(wrText, wrWidth)
    /\ wrPc' = "return"
    /\ UNCHANGED <<wrText, wrWidth, wizardVars, fuzzyVars>>

SpecWrap == InitWrap /\ [][WrapApply]_vars

---------------------------------------------------------------------------
(* What the claims speak of, stated apart from the code's own loops.       *)

\* some row is selected
AnySelected(mm) == \E i \in 1..Len(mm.targets) : mm.targets[i].Selected

\* q is an ordered, not necessarily contiguous, subsequence of t
SubseqOf(q, t) ==
    \E f \in [1..Len(q) -> 1..Len(t)] :
        /\ \A i \in 1..Len(q) : t[f[i]] = q[i]
        /\ \A i \in 1..Len(q) : \A j \in 1..Len(q) : i < j => f[i] < f[j]

\* the members of a finite set of integers, ascending
Ascending(S) ==
    [k \in 1..Cardinality(S) |-> CHOOSE x \in S : Cardinality({y \in S : y < x}) = k - 1]

\* the 0-based indices of the rows whose lower-cased label holds the characters of
\* the lower-cased query in order
RowsHolding(mm) ==
    {i \in 0..(Len(mm.targets) - 1) :
        SubseqOf(Runes(lowered(mm.filter)), Runes(lowered(mm.targets[i + 1].Label)))}

\* The geometry of a model value.  A step either leaves the terminal's size alone
\* or stores a known size in the model, so these read the same on m' as after it.
HeightKnown(mm) == currentHeight(mm) > 0

\* the cursor's row as <<first display line, line count>>, and the window's rows
CursorRange(mm) == targetCursorLine(mm, innerWidth(mm), targetIndexes(mm))
VisibleRows(mm) == targetVisibleRows(mm, innerWidth(mm), currentHeight(mm)).visible

---------------------------------------------------------------------------
(* C1 .. C10                                                               *)

\* C1: in every reachable state the 'all' row (index 0) is never selected
\* together with another row.
C1_AllExcludesOthers ==
    ~(m.targets[1].Selected /\ \E i \in 2..Len(m.targets) : m.targets[i].Selected)

\* 'all' is the one selected row while a filter is active in the target step
C1_Witness ==
    /\ pc = "ui" /\ m.step = stepTargets
    /\ m.filter # <<>>
    /\ m.targets[1].Selected
    /\ Len(m.targets) > 1

C3_EmptyConfirmPicksAll ==
    [][ (PressEnter /\ m.step = stepTargets /\ ~AnySelected(m)) =>
           (m'.targets[1].Selected /\ m'.step = stepAction) ]_vars

\* the '-target=<label>' arguments of the selected rows other than 'all', in row order
ExpectedTargetArgs ==
    LET rest == SelectSeq(Tail(m.targets), LAMBDA t : t.Selected)
    IN  IF m.targets[1].Selected THEN <<>>
        ELSE [i \in 1..Len(rest) |-> targetFlag \o rest[i].Label]

\* C4: when the wizard ended with an action chosen, terraform gets exactly the
\* action, then one '-target=<label>' per selected row other than 'all', in row
\* order; with 'all' selected it gets the action alone.
C4_ArgsExact ==
    (pc = "exited" /\ m.action # <<>>) =>
        /\ invoked
        /\ args = <<m.action>> \o ExpectedTargetArgs
        /\ (m.targets[1].Selected => args = <<m.action>>)

\* apply with module.net and resource.aws_instance.web selected
C4_Witness ==
    /\ pc = "exited" /\ invoked
    /\ Len(m.targets) = 3
    /\ args = << actions[2], targetFlag \o m.targets[2].Label,
                 targetFlag \o m.targets[3].Label >>

\* a navigation, filter or resize event
NavFilterResize ==
    PressUp \/ PressDown \/ PressVim \/ TypeRunes \/ PressBackspace \/ Resize

\* every display line of the cursor's row is inside the window
CursorRowInside(mm) ==
    /\ mm.targetOffset <= CursorRange(mm)[1]
    /\ CursorRange(mm)[1] + CursorRange(mm)[2] <= mm.targetOffset + VisibleRows(mm)

\* C5: after every navigation, filter or resize event in the target step, with
\* the height known, all wrapped lines of the cursor's row lie inside
\* [targetOffset, targetOffset + visibleRows).  Stated for the rows that are no
\* taller than the window, where it can be met.
C5_WholeRowVisible ==
    [][ (NavFilterResize /\ pc' = "ui" /\ m'.step = stepTargets
            /\ HeightKnown(m') /\ CursorRange(m')[2] <= VisibleRows(m')) =>
           CursorRowInside(m') ]_vars

\* C6: fuzzyMatch(t, "") is true, and fuzzyMatch(t, q) is true exactly when the
\* characters of q occur in t in the same order.
C6_FuzzyIsSubsequence ==
    fzPc = "return" =>
        /\ (fzQuery = <<>> => fzResult)
        /\ (fzResult <=> SubseqOf(Runes(fzQuery), Runes(fzText)))

\* C7: matchedIndices (m.filtered) is empty when the query is empty, and is
\* otherwise the ascending list of the rows whose lower-cased label holds the
\* lower-cased query as an ordered subsequence.
C7_FilteredIsView ==
    IF m.filter = <<>> THEN m.filtered = <<>>
    ELSE m.filtered = Ascending(RowsHolding(m))

\* the newline-separated sub-lines of a text
SubLines(text) ==
    LET nl == Ascending({i \in 1..Len(text) : text[i] = 10})
        cuts == <<0>> \o [k \in 1..Len(nl) |-> nl[k]] \o <<Len(text) + 1>>
    IN  [k \in 1..(Len(cuts) - 1) |-> SubSeq(text, cuts[k] + 1, cuts[k + 1] - 1)]

RuneCount(s) == Len(Runes(s))

\* how many lines a sub-line of n runes takes at width w
ChunkCount(s, w) == IF RuneCount(s) = 0 THEN 1 ELSE (RuneCount(s) + w - 1) \div w

RECURSIVE ChunksBefore(_, _, _)
ChunksBefore(subs, w, k) ==
    IF k <= 1 THEN 0 ELSE ChunkCount(subs[k - 1], w) + ChunksBefore(subs, w, k - 1)

\* the lines of `out` that belong to sub-line k
ChunksOf(out, subs, w, k) ==
    SubSeq(out, ChunksBefore(subs, w, k) + 1, ChunksBefore(subs, w, k + 1))

\* every chunk has at most w runes, every chunk but the last exactly w, and a
\* non-empty sub-line gets no empty chunk
ChunksShaped(g, s, w) ==
    /\ \A i \in 1..Len(g) : RuneCount(g[i]) <= w /\ (i < Len(g) => RuneCount(g[i]) = w)
    /\ s # <<>> => \A i \in 1..Len(g) : g[i] # <<>>

ValidUTF8(s) == EncodeRunes(Runes(s)) = s

\* C8: for every text and width w >= 1 each line of wrapLines has at most w
\* runes, and the lines of one sub-line, concatenated, are that sub-line exactly.
C8_WrapGivesBackBytes ==
    (wrPc = "return" /\ wrWidth >= 1) =>
        LET subs == SubLines(wrText)
        IN  /\ Len(wrOut) = ChunksBefore(subs, wrWidth, Len(subs) + 1)
            /\ \A k \in 1..Len(subs) :
                  LET g == ChunksOf(wrOut, subs, wrWidth, k)
                  IN  ChunksShaped(g, subs[k], wrWidth) /\ Flatten(g) = subs[k]

\* C8 as amended: the lines of one sub-line, concatenated, give back the runes
\* of the sub-line, and its bytes when the sub-line is valid UTF-8.
C8_WrapGivesBackRunes ==
    (wrPc = "return" /\ wrWidth >= 1) =>
        LET subs == SubLines(wrText)
        IN  /\ Len(wrOut) = ChunksBefore(subs, wrWidth, Len(subs) + 1)
            /\ \A k \in 1..Len(subs) :
                  LET g == ChunksOf(wrOut, subs, wrWidth, k)
                  IN  /\ ChunksShaped(g, subs[k], wrWidth)
                      /\ Runes(Flatten(g)) = Runes(subs[k])
                      /\ ValidUTF8(subs[k]) => Flatten(g) = subs[k]

\* U+00E9, 'a' and a stray lead byte at width 2: two chunks, the stray byte
\* coming back as U+FFFD
C8_Witness ==
    /\ wrPc = "return" /\ wrWidth = 2
    /\ wrText = <<195, 169, 97, 195>>
    /\ wrOut = << <<195, 169, 97>>, <<239, 191, 189>> >>

\* the two quit keys as messages
QuitMsgs == { KeyMsg("KeyCtrlC", <<>>), RunesMsg(<<"q">>) }

\* C9: from any state of the loop a quit key (ctrl+c or q) ends the loop in one
\* step with no action recorded; main then exits with status 0 and terraform is
\* not run.
C9_QuitCancels ==
    /\ [](pc = "ui" => \A msg \in QuitMsgs :
                          Update(m, msg).quit /\ Update(m, msg).m.action = <<>>)
    /\ [][ /\ (PressCtrlC \/ PressQ) => (pc' = "done" /\ m'.action = <<>>)
           /\ (pc = "done" /\ m.action = <<>>) =>
                  (pc' = "exited" /\ exitCode' = 0 /\ ~invoked' /\ args' = <<>>) ]_vars

\* cancelled in the action step, after a selection was confirmed
C9_Witness ==
    /\ pc = "exited" /\ exitCode = 0 /\ ~invoked
    /\ m.step = stepAction
    /\ m.action = <<>>

\* the printable characters the model's user types
PrintableRunes == TypedRunes \cup VimRunes \cup {<<"q">>}

\* C10: in the target step every printable-character key appends the character
\* to the filter and has m.filtered recomputed; none is used for anything else.
C10_PrintableAppends ==
    [][ \A cs \in PrintableRunes :
            (Handle(RunesMsg(cs)) /\ m.step = stepTargets) =>
                /\ pc' = "ui"
                /\ m'.filter = m.filter \o Str(cs)
                /\ m'.filtered = matchFrom(m.targets, ToLower(m'.filter), 1) ]_vars

---------------------------------------------------------------------------
(* C11 .. C20                                                              *)

\* the rows the target list displays, as 0-based indices in display order: the
\* matched rows when there are any, every row otherwise
Displayed(mm) ==
    IF mm.filtered # <<>> THEN mm.filtered
    ELSE [i \in 1..Len(mm.targets) |-> i - 1]

\* the row d places after the cursor's in the sequence shown; the cursor's own
\* row when there is no such place
Neighbour(mm, shown, d) ==
    LET p == CHOOSE k \in 1..Len(shown) : shown[k] = mm.cursor
    IN  IF p + d < 1 \/ p + d > Len(shown) THEN mm.cursor ELSE shown[p + d]

DownMsgs == { KeyMsg("KeyDown", <<>>), RunesMsg(<<"j">>) }
UpMsgs == { KeyMsg("KeyUp", <<>>), RunesMsg(<<"k">>) }

\* C11: in the target step a down (up) key moves the cursor to the next
\* (previous) row of the displayed ordering, the matched rows when the filter
\* matches and all rows otherwise; at the last (first) displayed row the cursor
\* stays, with no wraparound.
C11_MovesWithinDisplayed ==
    [][ (m.step = stepTargets /\ InSeq(m.cursor, Displayed(m))) =>
            /\ \A msg \in DownMsgs :
                   Handle(msg) => m'.cursor = Neighbour(m, Displayed(m), 1)
            /\ \A msg \in UpMsgs :
                   Handle(msg) => m'.cursor = Neighbour(m, Displayed(m), -1) ]_vars

\* with rows 0 and 2 matching "a", the cursor is on row 2: it went past row 1
C11_Witness ==
    /\ pc = "ui" /\ m.step = stepTargets
    /\ m.filter = keyA
    /\ m.filtered = <<0, 2>>
    /\ m.cursor = 2

\* C12: when the filter is non-empty and no row matches it, the cursor is parked
\* at 0 and the set of rows displayed and navigated is empty, unlike the
\* unfiltered state, where every row is displayed.
C12_NoMatchShowsNothing ==
    (pc = "ui" /\ m.step = stepTargets /\ m.filter # <<>> /\ m.filtered = <<>>) =>
        /\ m.cursor = 0
        /\ viewIndexes(m) = <<>>
        /\ targetIndexes(m) = <<>>

\* C13: in every reachable target-step state whose matched indices are not
\* empty the cursor is one of them; a change of the filter leaves the cursor
\* where it is when its row still matches and moves it to the first matched
\* index otherwise.
C13_CursorInMatched ==
    /\ []((m.step = stepTargets /\ m.filtered # <<>>) => InSeq(m.cursor, m.filtered))
    /\ [][ (m.step = stepTargets /\ m'.step = stepTargets
             /\ m'.filter # m.filter /\ m'.filtered # <<>>) =>
               m'.cursor = IF InSeq(m.cursor, m'.filtered)
                           THEN m.cursor ELSE m'.filtered[1] ]_vars

\* typing N with the cursor on 'all' moved it to the first row that matches
C13_Witness ==
    /\ pc = "ui" /\ m.step = stepTargets
    /\ m.filter = keyN
    /\ m.filtered = <<1, 2>>
    /\ m.cursor = 1

\* C14: in the action step the action cursor is always 0 or 1; up at 0 and down
\* at 1 leave it unchanged, with no wraparound, and no other key moves it.
C14_ActionCursorClamped ==
    /\ [](m.step = stepAction => m.actionCursor \in {0, 1})
    /\ [][ (m.step = stepAction /\ pc = "ui") =>
            /\ \A msg \in UpMsgs :
                   Handle(msg) => m'.actionCursor =
                                    IF m.actionCursor = 0 THEN 0 ELSE m.actionCursor - 1
            /\ \A msg \in DownMsgs :
                   Handle(msg) => m'.actionCursor =
                                    IF m.actionCursor = 1 THEN 1 ELSE m.actionCursor + 1
            /\ (~ \E msg \in UpMsgs \cup DownMsgs : Handle(msg)) =>
                   m'.actionCursor = m.actionCursor ]_vars

\* 'apply' is highlighted in the action step
C14_Witness ==
    /\ pc = "ui" /\ m.step = stepAction
    /\ m.actionCursor = 1

planLabel == Str(<<"p", "l", "a", "n">>)
applyLabel == Str(<<"a", "p", "p", "l", "y">>)

\* C15: Enter in the action step records the label under the action cursor
\* ('plan' for 0, 'apply' for 1) as the chosen action and ends the loop; the
\* action is set in no other way, so terraform is run only after such a confirm,
\* with that action, and at most once.
C15_ConfirmRecordsAction ==
    /\ [][ (PressEnter /\ m.step = stepAction) =>
              /\ pc' = "done"
              /\ m'.action = IF m.actionCursor = 0 THEN planLabel ELSE applyLabel
              /\ m.actionCursor \in {0, 1} ]_vars
    /\ [][ m'.action # m.action =>
              (PressEnter /\ m.step = stepAction /\ m.action = <<>>) ]_vars
    /\ [][ invoked' # invoked =>
              /\ ~invoked /\ pc = "done" /\ m.step = stepAction
              /\ m.action \in {planLabel, applyLabel}
              /\ args'[1] = m.action ]_vars
    /\ [][ ~invoked ]_vars

\* terraform was run with 'apply' and no target
C15_Witness ==
    /\ pc = "exited" /\ invoked
    /\ m.action = applyLabel
    /\ args = <<applyLabel>>

\* C16: the exit status is 0 when the user cancels before choosing an action or
\* when terraform succeeds, and 1 when the scan fails, the interactive loop
\* fails, or terraform fails to launch or exits non-zero; a scan failure ends
\* the program before the wizard starts.
C16_ExitStatus ==
    /\ [](pc = "exited" =>
             /\ exitCode = IF err = "nil" THEN 0 ELSE 1
             /\ err \in {"launch", "exit"} => invoked
             /\ err \in {"scan", "run"} => ~invoked
             /\ ~invoked /\ err = "nil" => m.action = <<>>)
    /\ [](pc # "exited" => err = "nil" /\ exitCode = -1)
    /\ [][ err' = "scan" => (pc = "scan" /\ pc' = "exited" /\ m' = m) ]_vars
    /\ [][ pc # "exited" ]_vars

\* terraform ran on the chosen targets and exited non-zero
C16_Witness ==
    /\ pc = "exited" /\ invoked
    /\ err = "exit"
    /\ exitCode = 1
    /\ Len(args) > 1

\* every message the model's user and terminal send
AllMsgs ==
    { KeyMsg("KeyUp", <<>>), KeyMsg("KeyDown", <<>>), KeyMsg("KeySpace", <<32>>),
      KeyMsg("KeyEnter", <<>>), KeyMsg("KeyBackspace", <<>>), KeyMsg("KeyTab", <<>>),
      KeyMsg("KeyCtrlC", <<>>) }
    \cup {RunesMsg(cs) : cs \in PrintableRunes}
    \cup {SizeMsg(size) : size \in ResizeSizes}

RowInRange(mm) == mm.cursor >= 0 /\ mm.cursor < Len(mm.targets)

\* r is a result of Update on mm: a model over the same rows with the cursor on
\* one of them, and a decision to quit or not
Answered(mm, r) ==
    /\ r.quit \in BOOLEAN
    /\ RowInRange(r.m)
    /\ Len(r.m.targets) = Len(mm.targets)

\* C17: every key or resize event is handled in every reachable state, and the
\* target cursor always satisfies 0 <= cursor < number of rows, also when the
\* filter matches nothing or the scan found no targets, so that the toggle
\* indexes inside the row array; moves past an end are clamped.
C17_EventsTotal ==
    /\ RowInRange(m)
    /\ \A k \in 1..Len(m.filtered) :
           m.filtered[k] >= 0 /\ m.filtered[k] < Len(m.targets)
    /\ pc = "ui" =>
           \A msg \in AllMsgs : Answered(m, Update(m, msg))

\* the scan found no target, the filter matches nothing, and Space has
\* toggled the row under the parked cursor
C17_Witness ==
    /\ pc = "ui" /\ m.step = stepTargets
    /\ Len(m.targets) = 1
    /\ m.filter # <<>> /\ m.filtered = <<>>
    /\ m.cursor = 0
    /\ m.targets[1].Selected

\* C18: a successful confirm in the target step sets the action cursor and the
\* action viewport offset to 0, so the action step is always entered with
\* 'plan' highlighted, whatever happened before.
C18_ActionStepStartsAtPlan ==
    [][ (PressEnter /\ m.step = stepTargets /\ AnySelected(m)) =>
           /\ m'.step = stepAction
           /\ m'.actionCursor = 0
           /\ m'.actionOffset = 0
           /\ actions[m'.actionCursor + 1] = planLabel ]_vars

\* the action step right after a confirm that followed filtering, moving,
\* selecting and a resize
C18_Witness ==
    /\ pc = "ui" /\ m.step = stepAction
    /\ m.actionCursor = 0 /\ m.actionOffset = 0
    /\ m.filter # <<>>
    /\ m.height > 0
    /\ Len(m.targets) = 3 /\ m.targets[3].Selected

\* C19: a resize in either step changes only the stored width and height and
\* the viewport offset of the step in progress; the step, both cursors, every
\* row's selected flag, the filter, the matched indices, the note and the
\* recorded action are unchanged.
C19_ResizeFrame ==
    [][ Resize =>
           /\ m'.width = term'[1] /\ m'.height = term'[2]
           /\ m' = [m EXCEPT !.width = m'.width,
                             !.height = m'.height,
                             !.targetOffset =
                                 IF m.step = stepTargets THEN m'.targetOffset ELSE @,
                             !.actionOffset =
                                 IF m.step = stepAction THEN m'.actionOffset ELSE @]
           /\ pc' = "ui" ]_vars

\* the window shrank to one visible row with the cursor on the third row: the
\* offset followed, the cursor did not move
C19_Witness ==
    /\ pc = "ui" /\ m.step = stepTargets
    /\ m.width = 60 /\ m.height = 3
    /\ m.cursor = 2
    /\ m.targetOffset = 2

\* the number of display lines of the rows shown from place k on, each label
\* wrapped to the width left of the row prefix
RECURSIVE LinesShown(_, _, _)
LinesShown(mm, shown, k) ==
    IF k > Len(shown) THEN 0
    ELSE Len(wrapped(mm.targets[shown[k] + 1].Label, targetLabelWidth(innerWidth(mm))))
         + LinesShown(mm, shown, k + 1)

TotalDisplayLines(mm) == LinesShown(mm, Displayed(mm), 1)

\* the largest offset that leaves no blank line below the content
MaxOffset(mm) ==
    IF TotalDisplayLines(mm) - VisibleRows(mm) < 0 THEN 0
    ELSE TotalDisplayLines(mm) - VisibleRows(mm)

\* C20: in the target step with a known height, after every event,
\* 0 <= targetOffset <= max(0, total display lines - visible rows), the total
\* counting the wrapped lines of the rows displayed: the window shows no blank
\* region past the end of the content.
C20_OffsetWithinContent ==
    (m.step = stepTargets /\ HeightKnown(m)) =>
        (m.targetOffset >= 0 /\ m.targetOffset <= MaxOffset(m))

\* a filter cut the list to two one-line rows under a one-row window: the
\* offset sits at the largest value allowed
C20_Witness ==
    /\ pc = "ui" /\ m.step = stepTargets
    /\ m.height = 3
    /\ m.filtered = <<0, 2>>
    /\ MaxOffset(m) = 1
    /\ m.targetOffset = 1

---------------------------------------------------------------------------
(* C21 .. C30                                                              *)

\* a string without its last character
DropLastRune(s) == EncodeRunes(SubSeq(Runes(s), 1, Len(Runes(s)) - 1))

\* C21: in the target step Backspace on a non-empty query removes exactly its
\* last character, also one encoded in several bytes or typed together with
\* others in one key event, and recomputes the matched indices; on an empty
\* query it changes nothing in query, matched indices, cursor or selection.
C21_EraseDropsLastCharacter ==
    [][ (PressBackspace /\ m.step = stepTargets /\ ValidUTF8(m.filter)) =>
           IF m.filter # <<>>
           THEN /\ m'.filter = DropLastRune(m.filter)
                /\ m'.filtered = (IF m'.filter = <<>> THEN <<>>
                                  ELSE matchFrom(m.targets, ToLower(m'.filter), 1))
           ELSE /\ m'.filter = m.filter /\ m'.filtered = m.filtered
                /\ m'.cursor = m.cursor /\ m'.targets = m.targets ]_vars

\* C22: in the target step, after a toggle that leaves at least one row selected
\* the note is empty; a toggle that leaves no row selected does not clear a
\* pending note.
C22_ToggleClearsNote ==
    [][ (PressSpace /\ m.step = stepTargets) =>
           IF AnySelected(m') THEN m'.note = <<>> ELSE m'.note = m.note ]_vars

\* with the note of a rejected confirm pending, Space selects the cursor's row
\* and the result carries no note
ToggledFrom(mm, r) == mm.note # <<>> /\ AnySelected(r.m) /\ r.m.note = <<>>

C22_Witness ==
    /\ pc = "ui" /\ m.step = stepTargets
    /\ m.cursor > 0
    /\ ToggledFrom(m, Update(m, KeyMsg("KeySpace", <<32>>)))

\* the rows of ts other than the first that are selected, as 1-based places
SelectedOthers(ts) == {j \in 2..Len(ts) : ts[j].Selected}

\* C23: toggle(i) for i # 0 flips row i's flag, leaves 'all' (row 0) unselected
\* and every other row's flag as it was; toggle(0) with 'all' unselected selects
\* 'all' and deselects every other row; toggle(0) with 'all' selected deselects
\* it and leaves no row selected.
C23_ToggleEffect ==
    [][ (PressSpace /\ m.step = stepTargets) =>
           /\ Len(m'.targets) = Len(m.targets)
           /\ \A j \in 1..Len(m.targets) : m'.targets[j].Label = m.targets[j].Label
           /\ IF m.cursor # 0
              THEN /\ m'.targets[m.cursor + 1].Selected = ~m.targets[m.cursor + 1].Selected
                   /\ ~m'.targets[1].Selected
                   /\ \A j \in 2..Len(m.targets) :
                          j # m.cursor + 1 =>
                              m'.targets[j].Selected = m.targets[j].Selected
              ELSE IF ~m.targets[1].Selected
                   THEN m'.targets[1].Selected /\ SelectedOthers(m'.targets) = {}
                   ELSE ~AnySelected(m') ]_vars

\* Space on 'all' while another row is selected: the result has 'all' alone
AllAloneFrom(mm, r) ==
    /\ SelectedOthers(mm.targets) # {}
    /\ r.m.targets[1].Selected /\ SelectedOthers(r.m.targets) = {}

C23_Witness ==
    /\ pc = "ui" /\ m.step = stepTargets
    /\ m.cursor = 0
    /\ AllAloneFrom(m, Update(m, KeyMsg("KeySpace", <<32>>)))

\* the least change of an offset that puts display line cl, the line that
\* carries the cursor mark, into a window of `visible` lines: none when the line
\* is inside, the line itself when it is above, the smallest offset whose
\* window holds it when it is below
LeastScroll(off, visible, cl) ==
    IF cl < off THEN cl
    ELSE IF cl >= off + visible
         THEN CHOOSE o \in 0..cl : /\ cl < o + visible
                                   /\ \A o2 \in 0..cl : cl < o2 + visible => o <= o2
    ELSE off

Least(a, b) == IF a < b THEN a ELSE b

\* the same quantities for the action list
ActionLine(mm) == actionCursorLine(mm, innerWidth(mm))
ActionRows(mm) == actionVisibleRows(currentHeight(mm))
ActionMaxOffset(mm) ==
    IF actionTotalLines(innerWidth(mm)) - ActionRows(mm) < 0 THEN 0
    ELSE actionTotalLines(innerWidth(mm)) - ActionRows(mm)

\* C24: ensureVisible changes the offset by the least amount.  When the cursor
\* is inside the window and the offset is at most the maximum offset, the
\* offset stays; when the cursor is above the window the offset becomes the
\* cursor's first display line; when it is below, the offset becomes the
\* smallest value that brings the cursor into the window.  The cursor's place
\* is its first display line, in the target list and in the action list.
C24_LeastScroll ==
    [][ (pc = "ui" /\ pc' = "ui" /\ m'.step = m.step /\ HeightKnown(m')) =>
           /\ m.step = stepTargets =>
                  m'.targetOffset =
                      LeastScroll(Least(m.targetOffset, MaxOffset(m')),
                                  VisibleRows(m'), CursorRange(m')[1])
           /\ m.step = stepAction =>
                  m'.actionOffset =
                      LeastScroll(Least(m.actionOffset, ActionMaxOffset(m')),
                                  ActionRows(m'), ActionLine(m')) ]_vars

\* a window of two rows scrolled down just far enough: the line with the
\* cursor mark is its last
C24_Witness ==
    /\ pc = "ui" /\ m.step = stepTargets /\ HeightKnown(m)
    /\ VisibleRows(m) = 2
    /\ m.targetOffset > 0
    /\ m.targetOffset = CursorRange(m)[1] - 1

\* C25: wrapLines returns, and returns at least one line, for every text and
\* every integer width; for a width <= 0 it returns exactly the
\* newline-separated sub-lines, each whole; an empty text gives one empty line
\* and a blank sub-line gives an empty line.
C25_WrapAlwaysAnswers ==
    wrPc = "return" =>
        /\ Len(wrOut) >= 1
        /\ wrWidth <= 0 => wrOut = SubLines(wrText)
        /\ wrText = <<>> => wrOut = << <<>> >>
        /\ wrWidth >= 1 =>
               \A k \in 1..Len(SubLines(wrText)) :
                   SubLines(wrText)[k] = <<>> =>
                       wrOut[ChunksBefore(SubLines(wrText), wrWidth, k) + 1] = <<>>

\* "ab", then two blank sub-lines, at width 1: four lines
C25_Witness ==
    /\ wrPc = "return" /\ wrWidth = 1
    /\ wrText = <<97, 98, 10, 10>>
    /\ wrOut = << <<97>>, <<98>>, <<>>, <<>> >>

\* the lines of a terminal of height h left under the header, the filter line
\* and the blank line, and the lines a note takes with its blank line
Room(mm, h) == h - 2 - Len(wrapped(filterPrefix \o mm.filter, innerWidth(mm))) - 1
NoteCost(mm) == 1 + Len(wrapped(mm.note, innerWidth(mm)))

\* r is the answer of targetVisibleRows where `room` lines are left and a note,
\* if there is one, takes `cost` of them: at least one row; the note is shown
\* exactly when a row is left beside it
RowsAnswer(noted, room, cost, r) ==
    /\ r.visible >= 1
    /\ r.showNote <=> (noted /\ room - cost >= 1)
    /\ r.showNote => r.visible = room - cost
    /\ (~r.showNote /\ room >= 1) => r.visible = room

\* the same at every height, room0 being the lines left at height 0
RowsAnswerAll(mm, room0, cost) ==
    \A h \in 1..MaxHeight :
        /\ RowsAnswer(mm.note # <<>>, room0 + h, cost,
                      targetVisibleRows(mm, innerWidth(mm), h))
        /\ actionVisibleRows(h) >= 1

\* C26: for every known height >= 1, every filter query and every note, the
\* number of visible rows of the target list and of the action list is at least
\* 1; in the target list a note that would leave fewer than one row is hidden
\* in favour of the rows.
C26_AtLeastOneRow == RowsAnswerAll(m, Room(m, 0), NoteCost(m))

\* a pending note in a terminal of three lines: the note is hidden and one row
\* is shown
C26_Witness ==
    /\ pc = "ui" /\ m.step = stepTargets
    /\ m.note # <<>>
    /\ m.height = 3
    /\ VisibleRows(m) = 1
    /\ ~targetVisibleRows(m, innerWidth(m), currentHeight(m)).showNote

\* C27: in every reachable state of the action step, and in every final state
\* with an action recorded, at least one row is selected; hence terraform is
\* run without a -target argument only if the 'all' row is selected then.
C27_ActionStepHasSelection ==
    /\ m.step = stepAction => AnySelected(m)
    /\ (pc = "exited" /\ m.action # <<>>) => AnySelected(m)
    /\ (invoked /\ Len(args) = 1) => m.targets[1].Selected

\* terraform plan was run without targets, 'all' being the selected row
C27_Witness ==
    /\ pc = "exited" /\ invoked
    /\ args = <<planLabel>>
    /\ m.targets[1].Selected
    /\ Len(m.targets) > 1

\* C28: the step only moves forward: from the action step no event leads back
\* to the target step, and no event there changes a row's selected flag, the
\* filter or the matched indices; so the targets given to terraform are those
\* selected when the confirm succeeded.
C28_StepOnlyForward ==
    /\ [][ m.step = stepAction =>
              /\ m'.step = stepAction
              /\ m'.targets = m.targets
              /\ m'.filter = m.filter
              /\ m'.filtered = m.filtered ]_vars
    /\ [](invoked => Tail(args) = ExpectedTargetArgs)

\* apply chosen after moving in the action list, with a filter typed and one
\* row other than 'all' selected before the confirm
C28_Witness ==
    /\ pc = "exited" /\ invoked
    /\ m.step = stepAction /\ m.actionCursor = 1
    /\ m.filter # <<>>
    /\ Len(args) = 2

\* a navigation key, a filter edit, or a confirm with nothing selected
NavEditReject ==
    \/ PressUp \/ PressDown \/ PressVim
    \/ TypeRunes \/ PressBackspace
    \/ (PressEnter /\ m.step = stepTargets /\ ~hasSelection(m.targets))

\* the selected rows other than 'all' that the filter keeps off the list
HiddenSelected(mm) ==
    {i \in 2..Len(mm.targets) :
        mm.targets[i].Selected /\ ~InSeq(i - 1, viewIndexes(mm))}

\* row i of mm passes the confirm check and is given to terraform as a -target
ConfirmedAndEmitted(mm, i) ==
    /\ hasSelection(mm.targets)
    /\ confirm(mm).step = stepAction
    /\ InSeq(targetArg(mm.targets[i].Label), commandArgs(confirm(mm)))

\* C29: navigation keys, filter edits (typing and erasing) and the rejected
\* confirm change no row's selected flag; a selected row that a later filter
\* hides stays selected, still satisfies the confirm check and is still given
\* to terraform as a -target argument.
C29_SelectionSurvivesFilter ==
    /\ [][ NavEditReject =>
              /\ Len(m'.targets) = Len(m.targets)
              /\ \A i \in 1..Len(m.targets) :
                     m'.targets[i].Selected = m.targets[i].Selected ]_vars
    /\ [](m.step = stepTargets =>
              \A i \in HiddenSelected(m) : ConfirmedAndEmitted(m, i))
    /\ []((pc = "exited" /\ invoked) =>
              \A i \in HiddenSelected(m) : InSeq(targetArg(m.targets[i].Label), args))

\* terraform was run with the -target of a selected row that the filter hid
C29_Witness ==
    /\ pc = "exited" /\ invoked
    /\ \E i \in HiddenSelected(m) : InSeq(targetArg(m.targets[i].Label), args)

\* C30: in every reachable state a note on screen means that no row is
\* selected: the note is set only by a confirm with nothing selected, and the
\* toggle that selects a row and the confirm that succeeds clear it.
C30_NoteMeansNothingSelected ==
    m.note # <<>> => ~AnySelected(m)

\* the note still on screen after the user moved on and typed a filter
C30_Witness ==
    /\ m.note # <<>>
    /\ m.filter # <<>>
    /\ m.cursor > 0
    /\ ~AnySelected(m)

\* display line cl is inside the window of `visible` lines that starts at off
LineInside(off, visible, cl) == off <= cl /\ cl < off + visible

\* C31: after every event in either step, with the height known, the first
\* display line of the active cursor's row lies inside
\* [offset, offset + visibleRows) of that step's viewport; also right after
\* entering the action step and after a resize that changes how labels wrap.
C31_CursorLineInWindow ==
    (pc # "scan" /\ HeightKnown(m)) =>
        /\ m.step = stepTargets =>
               LineInside(m.targetOffset, VisibleRows(m), CursorRange(m)[1])
        /\ m.step = stepAction =>
               LineInside(m.actionOffset, ActionRows(m), ActionLine(m))

\* the action list under a one-row window, scrolled to the cursor on 'apply'
C31_Witness ==
    /\ pc = "ui" /\ m.step = stepAction
    /\ m.height = 3
    /\ m.actionCursor = 1
    /\ ActionRows(m) = 1
    /\ m.actionOffset = 1

\* the rows after toggling the row of 0-based index i twice in a row
ToggledTwice(ts, i) == toggleSelection(toggleSelection(ts, i), i)

\* ts2 is what two toggles of one row other than 'all' must give from ts
TwiceRestoresOrClears(ts, ts2) ==
    IF ~ts[1].Selected
    THEN ts2 = ts
    ELSE /\ ts2 # ts
         /\ \A j \in 1..Len(ts2) : ~ts2[j].Selected

\* C32: with 'all' unselected, toggling the same row other than 'all' twice in
\* a row gives back the selection exactly; with 'all' selected it does not:
\* 'all' stays unselected and no row is selected.  Stated for every row of
\* every reachable selection, and for Space pressed twice on the cursor's row.
C32_ToggleTwice ==
    pc # "scan" =>
        /\ \A i \in 1..(Len(m.targets) - 1) :
               TwiceRestoresOrClears(m.targets, ToggledTwice(m.targets, i))
        /\ (m.step = stepTargets /\ m.cursor > 0) =>
               TwiceRestoresOrClears(m.targets, toggleKey(toggleKey(m)).targets)

\* 'all' is selected and the cursor is on another row: Space twice leaves
\* nothing selected
C32_Witness ==
    /\ pc = "ui" /\ m.step = stepTargets
    /\ m.targets[1].Selected
    /\ m.cursor > 0
    /\ ~AnySelected(toggleKey(toggleKey(m)))

=============================================================================
